---- MODULE Spec2Model ----
(***************************************************************************)
(* Client-side run/approval state layer of frontend/app.js (the LangGraph  *)
(* Server client): thread handling, the streamed run, the post-stream      *)
(* state fetch, the approval gate and the log journal.                     *)
(*                                                                         *)
(* One step of the model is one browser task: the synchronous code that    *)
(* runs from a user event or a network completion up to the next await on  *)
(* the network, together with the promise reactions that it triggers       *)
(* (an abort() rejects the aborted fetch/read synchronously, so the        *)
(* aborted operation's catch handler runs before any other task).          *)
(***************************************************************************)
EXTENDS Integers, Sequences, FiniteSets, TLC

\* ---- bounds of the model ----
\* start operations and resume operations launched in one behaviour
MaxStarts == 2
MaxResumes == 1
\* start operations launched in a behaviour that begins with a saved thread id
MaxStartsRestored == 1
MaxOps == MaxStarts + MaxResumes
\* frames delivered by one run stream
MaxFrames == 1
\* logItems holds the newest LogWindow entries of the journal
LogWindow == 1
\* entries appended to the journal at full capacity since it was last emptied
MaxAppends == 83
\* pieces (a line break character or a field) of one response body, and the
\* fields among them
MaxPieces == 6
MaxFields == 2

\* ---- program constants ----
MAX_LOG_ITEMS == 80

OpIds == 1..MaxOps

\* threadId = null
NoThread == 0
\* currentController = null
NoController == 0
\* the thread id found in localStorage when the page loads
SavedThread == 100

UiStates == {"idle", "starting", "waiting_approval", "resuming", "done", "error"}

\* texts the user types into the theme field; " " is whitespace only
Themes == {" ", "T"}
\* localStorage["agent_theme"] when the page loads: absent, or a topic
SavedThemes == {"", "T"}

\* decision tokens bound to approveBtn / retryBtn / rejectBtn
Decisions == {"y", "retry", "n"}

\* ---- JSON values ----
\* Every value is a record tagged by t, so that values of different shapes
\* can be told apart: null/undefined, string, list, object (ordered pairs).
Null == [t |-> "null"]
Str(s) == [t |-> "str", s |-> s]
List(items) == [t |-> "list", items |-> items]
JObj(pairs) == [t |-> "obj", pairs |-> pairs]

IsNull(x) == x.t = "null"
IsStr(x) == x.t = "str"
IsObj(x) == x.t = "obj"

\* Object.keys(o), in insertion order
Keys(o) == IF IsObj(o) THEN [i \in 1..Len(o.pairs) |-> o.pairs[i][1]] ELSE <<>>

HasKey(o, k) == IsObj(o) /\ \E i \in 1..Len(o.pairs) : o.pairs[i][1] = k

\* o?.[k]: undefined (Null) when o is no object or has no such key
Get(o, k) ==
    IF HasKey(o, k)
    THEN o.pairs[CHOOSE i \in 1..Len(o.pairs) : o.pairs[i][1] = k][2]
    ELSE Null

\* JS truthiness of a JSON value
Truthy(x) ==
    CASE x.t = "null" -> FALSE
      [] x.t = "str" -> x.s # ""
      [] OTHER -> TRUE

\* s.trim() of the strings the model uses: " " is the whitespace-only string
Trim(str) == IF str = " " THEN "" ELSE str

\* String(x || "") for the values the model uses as text
TextOf(x) == IF IsStr(x) THEN x.s ELSE IF Truthy(x) THEN "[object]" ELSE ""

\* typeof x === "string" && x.trim()
NonBlankStr(x) == IsStr(x) /\ Trim(x.s) # ""

\* an interrupt payload object {kind, question, analysis_preview}
Payload(kind, question, preview) ==
    JObj(<< <<"kind", Str(kind)>>, <<"question", Str(question)>>,
            <<"analysis_preview", preview>> >>)

\* Array.isArray(c) ? c[0] : c
FirstOf(c) ==
    IF c.t = "list"
    THEN (IF Len(c.items) > 0 THEN c.items[1] ELSE Null)
    ELSE c

\* first?.value ?? first
Unwrap(first) ==
    IF ~IsNull(Get(first, "value")) THEN Get(first, "value") ELSE first

\* payload.kind === "approval_request" || payload.question || payload.analysis_preview
LooksLikeApproval(p) ==
    \/ Get(p, "kind") = Str("approval_request")
    \/ Truthy(Get(p, "question"))
    \/ Truthy(Get(p, "analysis_preview"))

\* the payload synthesized from a bare status "interrupted"
DefaultPayload ==
    JObj(<< <<"kind", Str("approval_request")>>, <<"question", Str("DEFAULT_QUESTION")>>,
            <<"options", List(<<Str("y"), Str("n"), Str("retry")>>)>>,
            <<"analysis_preview", List(<<>>)>> >>)

\* a faulty candidate list, which looks at the root of obj only
CandidatesAtRoot(obj) ==
    SelectSeq(<< Get(obj, "__interrupt__"), Get(obj, "interrupts") >>, Truthy)

\* the candidate list of extractInterruptPayload, in its fixed order, falsy ones dropped
Candidates(obj) ==
    SelectSeq(<< Get(obj, "__interrupt__"),
                 Get(Get(obj, "values"), "__interrupt__"),
                 Get(obj, "interrupts"),
                 Get(Get(obj, "values"), "interrupts") >>,
              Truthy)

\* the payload a candidate yields, Null when the loop moves on to the next one
CandidatePayload(c) ==
    LET first == FirstOf(c)
        payload == Unwrap(first)
    IN  IF ~Truthy(first) THEN Null
        ELSE IF ~Truthy(payload) THEN Null
        ELSE IF LooksLikeApproval(payload) THEN payload
        ELSE Null

RECURSIVE FirstPayload(_)
FirstPayload(cs) ==
    IF cs = <<>> THEN Null
    ELSE LET p == CandidatePayload(Head(cs))
         IN  IF ~IsNull(p) THEN p ELSE FirstPayload(Tail(cs))

extractInterruptPayload(obj) ==
    IF ~Truthy(obj) THEN Null
    ELSE LET p == FirstPayload(Candidates(obj))
         IN  IF ~IsNull(p) THEN p
             ELSE IF TextOf(Get(obj, "status")) = "interrupted" THEN DefaultPayload
             ELSE Null

extractFinalReportFromThread(threadObj) ==
    LET values == Get(threadObj, "values")
    IN  IF ~Truthy(values) THEN ""
        ELSE IF NonBlankStr(Get(values, "final_report")) THEN Get(values, "final_report").s
        ELSE ""

extractCurrentStepFromThread(threadObj) ==
    LET values == Get(threadObj, "values")
    IN  IF ~Truthy(values) THEN "" ELSE TextOf(Get(values, "current_step"))

\* ---- labels ----
NodeKeys == {"research_agent", "tools", "summary_agent", "market_agent",
             "technical_agent", "human_approval", "report_agent"}

\* NODE_LABEL[s] || s
NodeLabel(key) == IF key \in NodeKeys THEN "label(" \o key \o ")" ELSE key

\* the read loop of runStream when the response body is not looked at byte by
\* byte: nothing to read, nothing buffered, nothing delivered
NotReading ==
    [body |-> <<>>, rest |-> <<>>, decoder |-> <<>>, buffer |-> <<>>,
     events |-> <<>>, done |-> FALSE]

\* no function is looked at on its own
NoCall == [of |-> "none"]

\* ---- program state ----
VARIABLES
    uiState,            \* let uiState
    threadId,           \* let threadId
    logItems,           \* let logItems, newest first
    currentController,  \* let currentController: id of the AbortController, 0 = null
    storedThreadId,     \* localStorage[THREAD_ID_KEY], 0 = absent
    startBtn, clearBtn, approveBtn, retryBtn, rejectBtn,   \* [disabled]
    cancelBtn, spinnerEl,                                  \* [hidden]
    statusCard, approvalCard, reportCard,                  \* [hidden]
    errorBanner,        \* [hidden, textContent]
    questionEl, previewEl, reportEl, workBadge,            \* textContent / items
    themeEl,            \* themeEl.value
    storedTheme,        \* localStorage["agent_theme"], "" = absent or blank
    ops,                \* the start/resume operations (async calls of runWithUi)
    initOp,             \* the initAsync call of page load
    reading,            \* the read loop of runStream, byte by byte (see NotReading)
    call                \* a function looked at on its own: its argument and result

vars == << uiState, threadId, logItems, currentController, storedThreadId,
           startBtn, clearBtn, approveBtn, retryBtn, rejectBtn, cancelBtn, spinnerEl,
           statusCard, approvalCard, reportCard, errorBanner,
           questionEl, previewEl, reportEl, workBadge, themeEl, storedTheme,
           ops, initOp, reading, call >>

\* The program state as one record, so that the functions of app.js are
\* operators from state to state and compose in program order.
Cur ==
    [uiState |-> uiState, threadId |-> threadId, logItems |-> logItems,
     currentController |-> currentController, storedThreadId |-> storedThreadId,
     startBtn |-> startBtn, clearBtn |-> clearBtn, approveBtn |-> approveBtn,
     retryBtn |-> retryBtn, rejectBtn |-> rejectBtn, cancelBtn |-> cancelBtn,
     spinnerEl |-> spinnerEl, statusCard |-> statusCard,
     approvalCard |-> approvalCard, reportCard |-> reportCard,
     errorBanner |-> errorBanner, questionEl |-> questionEl,
     previewEl |-> previewEl, reportEl |-> reportEl, workBadge |-> workBadge,
     themeEl |-> themeEl, storedTheme |-> storedTheme,
     ops |-> ops, initOp |-> initOp, reading |-> reading,
     call |-> call]

Becomes(s) ==
    /\ uiState' = s.uiState
    /\ threadId' = s.threadId
    /\ logItems' = s.logItems
    /\ currentController' = s.currentController
    /\ storedThreadId' = s.storedThreadId
    /\ startBtn' = s.startBtn
    /\ clearBtn' = s.clearBtn
    /\ approveBtn' = s.approveBtn
    /\ retryBtn' = s.retryBtn
    /\ rejectBtn' = s.rejectBtn
    /\ cancelBtn' = s.cancelBtn
    /\ spinnerEl' = s.spinnerEl
    /\ statusCard' = s.statusCard
    /\ approvalCard' = s.approvalCard
    /\ reportCard' = s.reportCard
    /\ errorBanner' = s.errorBanner
    /\ questionEl' = s.questionEl
    /\ previewEl' = s.previewEl
    /\ reportEl' = s.reportEl
    /\ workBadge' = s.workBadge
    /\ themeEl' = s.themeEl
    /\ storedTheme' = s.storedTheme
    /\ ops' = s.ops
    /\ initOp' = s.initOp
    /\ reading' = s.reading
    /\ call' = s.call

StartsAs(s) ==
    /\ uiState = s.uiState
    /\ threadId = s.threadId
    /\ logItems = s.logItems
    /\ currentController = s.currentController
    /\ storedThreadId = s.storedThreadId
    /\ startBtn = s.startBtn
    /\ clearBtn = s.clearBtn
    /\ approveBtn = s.approveBtn
    /\ retryBtn = s.retryBtn
    /\ rejectBtn = s.rejectBtn
    /\ cancelBtn = s.cancelBtn
    /\ spinnerEl = s.spinnerEl
    /\ statusCard = s.statusCard
    /\ approvalCard = s.approvalCard
    /\ reportCard = s.reportCard
    /\ errorBanner = s.errorBanner
    /\ questionEl = s.questionEl
    /\ previewEl = s.previewEl
    /\ reportEl = s.reportEl
    /\ workBadge = s.workBadge
    /\ themeEl = s.themeEl
    /\ storedTheme = s.storedTheme
    /\ ops = s.ops
    /\ initOp = s.initOp
    /\ reading = s.reading
    /\ call = s.call

\* ---- UI helpers ----
Hidden == [hidden |-> TRUE]
Shown == [hidden |-> FALSE]
Disabled(b) == [disabled |-> b]

setError(s, message) ==
    IF message = ""
    THEN [s EXCEPT !.errorBanner = [hidden |-> TRUE, textContent |-> ""]]
    ELSE [s EXCEPT !.statusCard = Shown,
                   !.errorBanner = [hidden |-> FALSE, textContent |-> message]]

setWork(s, nodeKeyOrLabel) ==
    LET k == IF nodeKeyOrLabel = "" THEN "-" ELSE nodeKeyOrLabel
    IN  [s EXCEPT !.workBadge = NodeLabel(k)]

\* a faulty setUiState, which leaves the buttons enabled while an approval is awaited
StartDisabledWhenBusy(state) == state \in {"starting", "resuming"}

\* startBtn.disabled / clearBtn.disabled of setUiState
StartDisabledIn(state) == state \in {"starting", "resuming", "waiting_approval"}

setUiState(s, state) ==
    LET busy == state \in {"starting", "resuming"}
        waiting == state = "waiting_approval"
    IN  [s EXCEPT !.uiState = state,
                  !.startBtn = Disabled(StartDisabledIn(state)),
                  !.clearBtn = Disabled(busy \/ waiting),
                  !.approveBtn = Disabled(~waiting),
                  !.retryBtn = Disabled(~waiting),
                  !.rejectBtn = Disabled(~waiting),
                  !.spinnerEl = [hidden |-> ~busy],
                  !.cancelBtn = [hidden |-> ~busy]]

setStatus(s) == [s EXCEPT !.statusCard = Shown]

\* a log entry; timeISO, detail and raw are not modelled
LogEntry(tag, agent, summary) == [tag |-> tag, agent |-> agent, summary |-> summary]

\* the entries kept: MAX_LOG_ITEMS of the program, of which the model follows
\* the newest LogWindow
LogKept == IF LogWindow < MAX_LOG_ITEMS THEN LogWindow ELSE MAX_LOG_ITEMS

\* a faulty addLogEntry, which pushes the entry at the end of the journal
addLogEntryAtEnd(s, entry, kept) ==
    LET added == s.logItems \o <<entry>>
    IN  [s EXCEPT !.logItems =
            IF Len(added) > kept THEN SubSeq(added, 1, kept) ELSE added]

\* addLogEntry with the number of entries kept as a parameter:
\* logItems.unshift(entry); if (length > kept) logItems = logItems.slice(0, kept)
addLogEntryKeeping(s, entry, kept) ==
    LET added == <<entry>> \o s.logItems
    IN  [s EXCEPT !.logItems =
            IF Len(added) > kept THEN SubSeq(added, 1, kept) ELSE added]

addLogEntry(s, entry) == addLogEntryKeeping(s, entry, LogKept)

Log(s, tag) == addLogEntry(s, LogEntry(tag, "", ""))

\* Array.isArray(analysisPreview) ? analysisPreview : []
renderPreview(s, analysisPreview) ==
    [s EXCEPT !.previewEl =
        IF analysisPreview.t = "list" THEN analysisPreview.items ELSE <<>>]

\* payload.question || "承認しますか？"
QuestionText(payload) ==
    IF Truthy(Get(payload, "question")) THEN TextOf(Get(payload, "question"))
    ELSE "DEFAULT_QUESTION"

showApprovalIfNeeded(s, payload) ==
    IF IsNull(payload) THEN s
    ELSE IF s.uiState = "waiting_approval" THEN s
    ELSE LET s1 == setUiState(s, "waiting_approval")
             s2 == [s1 EXCEPT !.approvalCard = Shown,
                              !.questionEl = QuestionText(payload)]
             s3 == renderPreview(s2, Get(payload, "analysis_preview"))
         IN  addLogEntry(s3, LogEntry("HITL", NodeLabel("human_approval"), "HITL"))

\* ---- SSE interpretation helpers ----
SHOW_NOISY_SSE == FALSE

\* JSON.stringify(x, null, 2) of a value that is no string
Stringify(x) == "json:" \o x.t

\* a frame as parseSseFrame returns it
Frame(event, data) == [id |-> "", event |-> event, data |-> data]

\* typeof x === "object" && x (objects and arrays)
IsObjectLike(x) == x.t \in {"obj", "list"}

\* the mapping both pick* helpers scan: obj.updates when it is an object, else obj
UpdatesOf(obj) ==
    IF IsObjectLike(Get(obj, "updates")) THEN Get(obj, "updates") ELSE obj

\* the values of Object.keys(u).map(k => u[k]), in order
ValuesOf(u) ==
    IF IsObj(u) THEN [i \in 1..Len(u.pairs) |-> u.pairs[i][2]]
    ELSE IF u.t = "list" THEN u.items
    ELSE <<>>

pickNodeKeyFromUpdates(obj) ==
    IF ~IsObjectLike(obj) THEN ""
    ELSE LET ks == SelectSeq(Keys(UpdatesOf(obj)), LAMBDA k : k \in NodeKeys)
         IN  IF ks = <<>> THEN "" ELSE Head(ks)

pickCurrentStepFromUpdates(obj) ==
    IF ~IsObjectLike(obj) THEN ""
    ELSE LET vs == SelectSeq(ValuesOf(UpdatesOf(obj)),
                      LAMBDA v : IsObjectLike(v) /\ NonBlankStr(Get(v, "current_step")))
         IN  IF vs = <<>> THEN "" ELSE Trim(Get(Head(vs), "current_step").s)

\* last?.content ?? last?.text ?? last?.message ?? last
MessageContent(last) ==
    IF ~IsNull(Get(last, "content")) THEN Get(last, "content")
    ELSE IF ~IsNull(Get(last, "text")) THEN Get(last, "text")
    ELSE IF ~IsNull(Get(last, "message")) THEN Get(last, "message")
    ELSE last

MessageKeys == <<"analysis_messages", "research_messages">>

extractReadableOutputFromNodeState(nodeState) ==
    IF ~IsObjectLike(nodeState) THEN ""
    ELSE IF NonBlankStr(Get(nodeState, "final_report")) THEN Get(nodeState, "final_report").s
    ELSE LET arrs == SelectSeq(MessageKeys,
                        LAMBDA key : Get(nodeState, key).t = "list"
                                     /\ Len(Get(nodeState, key).items) > 0)
         IN  IF arrs = <<>> THEN Stringify(nodeState)
             ELSE LET arr == Get(nodeState, Head(arrs)).items
                      content == MessageContent(arr[Len(arr)])
                  IN  IF IsStr(content) THEN content.s ELSE Stringify(content)

ELLIPSIS == "..."

\* truncate(s, n): strings are measured and cut as character sequences
truncate(str, n) ==
    IF Len(str) <= n THEN str ELSE SubSeq(str, 1, n) \o ELLIPSIS

NoiseEvents == {"metadata", "ping", "keepalive"}

\* values.current_step of the frame, as handleSseEvent reads it
ValuesStep(raw) ==
    LET valuesObj == IF IsObjectLike(Get(raw, "values")) THEN Get(raw, "values") ELSE Null
    IN  IF Truthy(Get(valuesObj, "current_step"))
        THEN TextOf(Get(valuesObj, "current_step")) ELSE ""

\* the part of handleSseEvent after the interrupt check and the noise filter
HandleOrdinaryFrame(s, ev) ==
    LET raw == ev.data
        eventName == ev.event
        step == IF IsObjectLike(raw) THEN ValuesStep(raw) ELSE ""
        s1 == IF step # "" THEN setWork(s, step) ELSE s
        stepFromUpdates == pickCurrentStepFromUpdates(raw)
        nodeKey == pickNodeKeyFromUpdates(raw)
        text == LET nodeState == Get(UpdatesOf(raw), nodeKey)
                IN  extractReadableOutputFromNodeState(
                        IF Truthy(nodeState) THEN nodeState ELSE JObj(<<>>))
        summary == IF truncate(text, 140) # "" THEN truncate(text, 140) ELSE "(update)"
        current == IF Truthy(Get(Get(raw, "values"), "current_step"))
                   THEN TextOf(Get(Get(raw, "values"), "current_step")) ELSE ""
    IN  IF eventName = "updates" /\ IsObjectLike(raw) /\ stepFromUpdates # ""
        THEN setWork(s1, stepFromUpdates)
        ELSE IF eventName = "updates" /\ nodeKey # ""
        THEN addLogEntry(s1, LogEntry("AGENT", NodeLabel(nodeKey), summary))
        ELSE IF eventName = "updates" /\ ~SHOW_NOISY_SSE
        THEN s1
        ELSE IF eventName = "values" /\ current # ""
        THEN addLogEntry(s1, LogEntry("STATE", NodeLabel(current), "values"))
        ELSE IF eventName = "values" /\ ~SHOW_NOISY_SSE
        THEN s1
        ELSE IF eventName = "values"
        THEN addLogEntry(s1, LogEntry("STATE", "", "values"))
        ELSE IF ~SHOW_NOISY_SSE
        THEN s1
        ELSE addLogEntry(s1, LogEntry(
                IF eventName # "" THEN "SSE:" \o eventName ELSE "SSE", "",
                IF IsStr(raw) THEN truncate(raw.s, 140) ELSE truncate(Stringify(raw), 140)))

\* a faulty handleSseEvent, which goes on with the frame after an interrupt
handleSseEventGoesOn(s, ev) ==
    LET raw == ev.data
        s0 == setStatus(s)
        interruptPayload == IF IsObjectLike(raw) THEN extractInterruptPayload(raw) ELSE Null
        s1 == IF Truthy(interruptPayload) THEN showApprovalIfNeeded(s0, interruptPayload)
              ELSE s0
    IN  IF ~SHOW_NOISY_SSE /\ ev.event \in NoiseEvents THEN s1
        ELSE HandleOrdinaryFrame(s1, ev)

handleSseEvent(s, ev) ==
    LET raw == ev.data
        s0 == setStatus(s)
        interruptPayload == IF IsObjectLike(raw) THEN extractInterruptPayload(raw) ELSE Null
    IN  IF Truthy(interruptPayload) THEN showApprovalIfNeeded(s0, interruptPayload)
        ELSE IF ~SHOW_NOISY_SSE /\ ev.event \in NoiseEvents THEN s0
        ELSE HandleOrdinaryFrame(s0, ev)

\* ---- what the server may answer (small, fixed sets of inputs) ----
P1 == Payload("approval_request", "Approve?", List(<<Str("m1"), Str("m2")>>))
P2 == Payload("", "Again?", Null)

\* frames of POST /threads/{id}/runs/stream
StreamFrames ==
    { Frame("updates", JObj(<< <<"__interrupt__", List(<<JObj(<< <<"value", P1>> >>)>>)>> >>)),
      Frame("updates", JObj(<< <<"report_agent",
                                 JObj(<< <<"final_report", Str("R")>> >>)>> >>)),
      Frame("values", JObj(<< <<"values",
                                 JObj(<< <<"current_step", Str("custom_step")>> >>)>> >>)) }

\* snapshots of GET /threads/{id}
ThreadSnapshots ==
    { JObj(<< <<"values", JObj(<< <<"current_step", Str("human_approval")>> >>)>>,
              <<"interrupts", List(<<JObj(<< <<"value", P2>> >>)>>)>> >>),
      JObj(<< <<"values", JObj(<< <<"current_step", Str("report_agent")>>,
                                   <<"final_report", Str("R")>> >>)>> >>),
      JObj(<< <<"status", Str("idle")>>,
              <<"values", JObj(<< <<"final_report", Str(" ")>> >>)>> >>) }

\* messages of the errors the network calls throw
CreateThreadErrors == {"thread create failed", "thread create response has no thread_id"}
StreamOpenErrors == {"runs/stream failed"}
StreamReadErrors == {"network error"}
GetThreadErrors == {"get thread failed"}
AbortError == "AbortError"

\* ---- the asynchronous operations ----
\* pc: the await the operation is suspended at
\*   create  createThread()            open   fetch(.../runs/stream)
\*   read    reader.read()             fetch  getThread(tid)
\*   done    returned or threw
\* tid, decision and count (eventCount) are the locals of the call; aborted
\* records why the operation's controller was aborted, if it was.
NoOp == [kind |-> "none", pc |-> "none", tid |-> NoThread, decision |-> "",
         count |-> 0, aborted |-> "no"]

InFlight(op) == op.pc \in {"create", "open", "read", "fetch"}
StreamOpen(op) == op.pc \in {"open", "read"}

\* the thread id POST /threads issues to operation i
NewThreadFor(i) == i

\* an operation that has returned or thrown: its locals are gone
Finished(op) == [NoOp EXCEPT !.kind = op.kind, !.pc = "done", !.aborted = op.aborted]

\* a faulty catch block, which puts the state machine back to idle
runWithUiCatchToIdle(s, i, msg) ==
    LET s1 == setUiState(s, "idle")
        s2 == setError(s1, msg)
        s3 == setStatus(s2)
        s4 == addLogEntry(s3, LogEntry("ERROR", "", msg))
    IN  [s4 EXCEPT !.ops[i] = Finished(s.ops[i])]

\* a faulty catch block, which also forgets the thread of the failed run
runWithUiCatchForgetThread(s, i, msg) ==
    LET s1 == setUiState(s, "error")
        s2 == setError(s1, msg)
        s3 == setStatus(s2)
        s4 == addLogEntry(s3, LogEntry("ERROR", "", msg))
    IN  [s4 EXCEPT !.ops[i] = Finished(s.ops[i]),
                   !.threadId = NoThread, !.storedThreadId = NoThread]

\* catch block of runWithUi, reached by operation i throwing msg
runWithUiCatch(s, i, msg) ==
    LET s1 == setUiState(s, "error")
        s2 == setError(s1, msg)
        s3 == setStatus(s2)
        s4 == addLogEntry(s3, LogEntry("ERROR", "", msg))
    IN  [s4 EXCEPT !.ops[i] = Finished(s.ops[i])]

\* finally block of runStream
runStreamFinally(s, i) ==
    IF s.currentController = i THEN [s EXCEPT !.currentController = NoController] ELSE s

\* The operations whose pending fetch/read controller.abort() rejects, where
\* controller is currentController (the id of a controller is the id of the
\* operation that created it).
AbortTargets(s) ==
    {j \in OpIds : j = s.currentController /\ StreamOpen(s.ops[j])}

\* a faulty runStream, which leaves the earlier request running
NoSupersede(s) == {}

\* runStream: if (currentController) currentController.abort()
SupersededBy(s) ==
    IF s.currentController # NoController THEN AbortTargets(s) ELSE {}

\* the reasons a request is cancelled for; nothing in app.js cancels on a timeout
CancelReasons == {"user", "superseded", "timeout"}

\* e.message of the rejection that controller.abort() causes: abort() is
\* called with no argument by runStream and by cancelInFlight alike
AbortMessage(why) == AbortError

\* The rejection of operation j's pending fetch or read after its controller
\* was aborted: the read loop's finally runs, then the catch of runWithUi.
AbortRejection(s, j, why) ==
    LET s1 == [s EXCEPT !.ops[j].aborted = why]
        s2 == IF s.ops[j].pc = "read" THEN runStreamFinally(s1, j) ELSE s1
    IN  runWithUiCatch(s2, j, AbortMessage(why))

RejectAll(s, targets, why) ==
    IF targets = {} THEN s ELSE AbortRejection(s, CHOOSE j \in targets : TRUE, why)

\* runStream up to `await fetch(...)`, called by operation i
runStreamOpen(s, i) ==
    LET victims == SupersededBy(s)
        s1 == [s EXCEPT !.currentController = i, !.ops[i].pc = "open"]
    IN  RejectAll(s1, victims, "superseded")

resetViewForRun(s) ==
    [setError(s, "") EXCEPT !.approvalCard = Hidden, !.reportCard = Hidden,
                            !.statusCard = Shown]

\* a faulty ensureThreadIdFromServer, which ignores forceNew
ReusesThreadAlways(s, forceNew) == s.threadId # NoThread

\* ensureThreadIdFromServer: if (!forceNew && threadId) return threadId
ReusesThread(s, forceNew) == ~forceNew /\ s.threadId # NoThread

\* start() from setWork("-") up to the await in runStream, on thread tid
startRun(s, i, tid) ==
    LET s1 == [s EXCEPT !.ops[i].tid = tid]
        s2 == setWork(s1, "-")
        s3 == setUiState(s2, "starting")
        s4 == Log(setStatus(s3), "START")
    IN  runStreamOpen(s4, i)

\* start() after createThread has answered, up to the await in runStream
startAfterThread(s, i) ==
    LET tid == NewThreadFor(i)
        s1 == [s EXCEPT !.threadId = tid, !.storedThreadId = tid]
    IN  startRun(Log(s1, "THREAD"), i, tid)

\* resume() from setUiState("resuming") up to the await in runStream
resumeRun(s, i) ==
    LET s1 == [s EXCEPT !.ops[i].tid = s.threadId]
        s2 == setUiState(s1, "resuming")
        s3 == addLogEntry(setStatus(s2), LogEntry("RESUME", "", s.ops[i].decision))
    IN  runStreamOpen(s3, i)

\* ensureThreadIdFromServer({forceNew: false}) after createThread has answered
resumeAfterThread(s, i) ==
    LET tid == NewThreadFor(i)
        s1 == [s EXCEPT !.threadId = tid, !.storedThreadId = tid]
    IN  resumeRun(Log(s1, "THREAD"), i)

\* start()/resume() after getThread has answered with threadObj
afterGetThread(s, i, threadObj) ==
    LET payload == extractInterruptPayload(threadObj)
        currentStep == extractCurrentStepFromThread(threadObj)
        report == extractFinalReportFromThread(threadObj)
        s1 == IF currentStep # "" THEN setWork(s, currentStep) ELSE s
        returned == [s1 EXCEPT !.ops[i] = Finished(s.ops[i])]
    IN  IF Truthy(payload)
        THEN setStatus(showApprovalIfNeeded(returned, payload))
        ELSE LET s2 == setUiState(returned, "done")
                 s3 == [s2 EXCEPT !.reportCard = Shown,
                                  !.reportEl = IF report = "" THEN "NO_REPORT_YET" ELSE report]
             IN  addLogEntry(setStatus(s3),
                     LogEntry("DONE", "", IF report = "" THEN "no report" ELSE "report"))

\* ---- initial state: the page has loaded and initAsync has run to its await ----
InitialUi ==
    LET blank == [uiState |-> "idle", threadId |-> NoThread, logItems |-> <<>>,
                  currentController |-> NoController, storedThreadId |-> NoThread,
                  startBtn |-> Disabled(FALSE), clearBtn |-> Disabled(FALSE),
                  approveBtn |-> Disabled(FALSE), retryBtn |-> Disabled(FALSE),
                  rejectBtn |-> Disabled(FALSE), cancelBtn |-> Hidden,
                  spinnerEl |-> Hidden, statusCard |-> Hidden,
                  approvalCard |-> Hidden, reportCard |-> Hidden,
                  errorBanner |-> [hidden |-> TRUE, textContent |-> ""],
                  questionEl |-> "", previewEl |-> <<>>, reportEl |-> "",
                  workBadge |-> "-",
                  themeEl |-> "", storedTheme |-> "",
                  ops |-> [i \in OpIds |-> NoOp],
                  initOp |-> [pc |-> "done", savedTid |-> NoThread],
                  reading |-> NotReading, call |-> NoCall]
    IN  Log(setWork(setUiState(blank, "idle"), "-"), "UI")

\* restoreTheme: if (saved) themeEl.value = saved
restoreTheme(s) == IF s.storedTheme # "" THEN [s EXCEPT !.themeEl = s.storedTheme] ELSE s

Init ==
    \E saved \in {NoThread, SavedThread}, savedTheme \in SavedThemes :
        StartsAs([restoreTheme([InitialUi EXCEPT !.storedTheme = savedTheme]) EXCEPT
                    !.storedThreadId = saved,
                    !.initOp = [pc |-> IF saved = NoThread THEN "done" ELSE "fetch",
                                savedTid |-> saved]])

\* ---- actions ----
FreeOps == {i \in OpIds : ops[i].pc = "none"}
Launched(kind) == Cardinality({i \in OpIds : ops[i].kind = kind})
NextOp == CHOOSE i \in FreeOps : \A j \in FreeOps : i <= j

StartBudget == IF initOp.savedTid = NoThread THEN MaxStarts ELSE MaxStartsRestored

\* the fallback topic of themeValue
DEFAULT_THEME == "DEFAULT_THEME"

\* a faulty themeValue, which has no fallback for a blank field
themeValueNoDefault(s) == Trim(s.themeEl)

\* themeEl.value.trim() || DEFAULT_THEME
themeValue(s) == IF Trim(s.themeEl) # "" THEN Trim(s.themeEl) ELSE DEFAULT_THEME

persistTheme(s, value) == [s EXCEPT !.storedTheme = value]

\* the user leaves the theme field as it is or types one of Themes, then
\* startBtn click, or Enter in the theme field while startBtn is enabled:
\* runWithUi(start) up to `await createThread()`
Start ==
    /\ ~startBtn.disabled
    /\ Launched("start") < StartBudget
    /\ \E typed \in Themes \cup {themeEl} :
          LET i == NextOp
              s0 == [Cur EXCEPT !.themeEl = typed]
              s1 == resetViewForRun(setError(s0, ""))
              s2 == persistTheme(s1, themeValue(s1))
              s3 == [s2 EXCEPT !.ops[i] = [NoOp EXCEPT !.kind = "start", !.pc = "create"]]
          IN  Becomes(IF ReusesThread(s3, TRUE) THEN startRun(s3, i, s3.threadId) ELSE s3)

\* POST /threads answers with a thread id
CreateThreadOk(i) ==
    /\ ops[i].pc = "create"
    /\ Becomes(IF ops[i].kind = "start" THEN startAfterThread(Cur, i)
               ELSE resumeAfterThread(Cur, i))

\* POST /threads fails (non-success status, no thread_id in the answer)
CreateThreadFail(i) ==
    /\ ops[i].pc = "create"
    /\ \E msg \in CreateThreadErrors : Becomes(runWithUiCatch(Cur, i, msg))

\* the button of a decision token
DecisionBtn(d) ==
    CASE d = "y" -> approveBtn
      [] d = "retry" -> retryBtn
      [] d = "n" -> rejectBtn

\* a faulty handleDecision, which resumes with "y" whatever the button
handleDecisionApproves(s, i, decision) ==
    LET s1 == [s EXCEPT !.approveBtn = Disabled(TRUE), !.retryBtn = Disabled(TRUE),
                        !.rejectBtn = Disabled(TRUE), !.startBtn = Disabled(TRUE),
                        !.clearBtn = Disabled(TRUE)]
        s2 == setUiState(s1, "resuming")
        s3 == resetViewForRun(setError(s2, ""))
        s4 == [s3 EXCEPT !.ops[i] = [NoOp EXCEPT !.kind = "resume", !.pc = "create",
                                                 !.decision = "y"]]
    IN  IF ReusesThread(s4, FALSE) THEN resumeRun(s4, i) ELSE s4

\* handleDecision(decision) and resume(decision) up to their first network await
handleDecision(s, i, decision) ==
    LET s1 == [s EXCEPT !.approveBtn = Disabled(TRUE), !.retryBtn = Disabled(TRUE),
                        !.rejectBtn = Disabled(TRUE), !.startBtn = Disabled(TRUE),
                        !.clearBtn = Disabled(TRUE)]
        s2 == setUiState(s1, "resuming")
        s3 == resetViewForRun(setError(s2, ""))
        s4 == [s3 EXCEPT !.ops[i] = [NoOp EXCEPT !.kind = "resume", !.pc = "create",
                                                 !.decision = decision]]
    IN  IF ReusesThread(s4, FALSE) THEN resumeRun(s4, i) ELSE s4

Decide(d) ==
    /\ ~DecisionBtn(d).disabled
    /\ Launched("resume") < MaxResumes
    /\ Becomes(handleDecision(Cur, NextOp, d))

\* the response of runs/stream arrives with a success status
StreamOpened(i) ==
    /\ ops[i].pc = "open"
    /\ Becomes([Cur EXCEPT !.ops[i].pc = "read"])

\* runs/stream answers with a non-success status, or the request fails:
\* the throw is outside the try/finally of runStream
StreamOpenFail(i) ==
    /\ ops[i].pc = "open"
    /\ \E msg \in StreamOpenErrors :
          Becomes(runWithUiCatch(Cur, i, msg))

\* one complete frame is cut from the buffer and handed to onEvent
ReadFrame(i) ==
    /\ ops[i].pc = "read"
    /\ ops[i].count < MaxFrames
    /\ \E ev \in StreamFrames :
          Becomes(handleSseEvent([Cur EXCEPT !.ops[i].count = @ + 1], ev))

\* a faulty start/resume, which returns without the state fetch
skipGetThread(s, i) == [s EXCEPT !.ops[i] = Finished(s.ops[i])]

\* start/resume after runStream has returned: `await getThread(tid)`
callGetThread(s, i) == [s EXCEPT !.ops[i].pc = "fetch"]

\* reader.read() reports done: the rest of runStream, then `await getThread(tid)`
ReadDone(i) ==
    /\ ops[i].pc = "read"
    /\ LET s1 == runStreamFinally(Cur, i)
           s2 == IF ops[i].count = 0 THEN Log(s1, "WARN") ELSE s1
       IN  Becomes(callGetThread(s2, i))

\* reader.read() rejects (the connection is lost)
ReadFail(i) ==
    /\ ops[i].pc = "read"
    /\ \E msg \in StreamReadErrors :
          Becomes(runWithUiCatch(runStreamFinally(Cur, i), i, msg))

\* GET /threads/{tid} answers
GetThreadOk(i) ==
    /\ ops[i].pc = "fetch"
    /\ \E threadObj \in ThreadSnapshots : Becomes(afterGetThread(Cur, i, threadObj))

GetThreadFail(i) ==
    /\ ops[i].pc = "fetch"
    /\ \E msg \in GetThreadErrors : Becomes(runWithUiCatch(Cur, i, msg))

\* cancelBtn click
cancelInFlight(s) ==
    IF s.currentController = NoController THEN s
    ELSE RejectAll(Log(s, "UI"), AbortTargets(s), "user")

Cancel ==
    /\ ~cancelBtn.hidden
    /\ Becomes(cancelInFlight(Cur))

\* clearBtn click
clearAll(s) ==
    LET s0 == persistTheme([s EXCEPT !.themeEl = ""], "")
        s1 == [s0 EXCEPT !.threadId = NoThread, !.storedThreadId = NoThread,
                        !.approvalCard = Hidden, !.reportCard = Hidden,
                        !.statusCard = Hidden]
        s2 == setWork(setUiState(setError(s1, ""), "idle"), "-")
    IN  [s2 EXCEPT !.logItems = <<>>]

ClearAll ==
    /\ ~clearBtn.disabled
    /\ Becomes(clearAll(Cur))

\* clearLogBtn click
clearLog(s) == Log([s EXCEPT !.logItems = <<>>], "UI")

ClearLog ==
    /\ TRUE
    /\ Becomes(clearLog(Cur))

\* a faulty initAsync, which keeps the saved thread id when nothing is pending
initAfterGetThreadKeepsId(s, t) ==
    LET payload == extractInterruptPayload(t)
        currentStep == extractCurrentStepFromThread(t)
        s1 == IF currentStep # "" THEN setWork(s, currentStep) ELSE s
        s2 == [s1 EXCEPT !.initOp.pc = "done"]
    IN  IF Truthy(payload)
        THEN LET s3 == Log([s2 EXCEPT !.threadId = s.initOp.savedTid], "UI")
                 s4 == setUiState(s3, "waiting_approval")
                 s5 == [s4 EXCEPT !.approvalCard = Shown, !.questionEl = QuestionText(payload)]
             IN  setStatus(renderPreview(s5, Get(payload, "analysis_preview")))
        ELSE Log(s2, "UI")

\* initAsync after getThread(savedTid) has answered with t
initAfterGetThread(s, t) ==
    LET payload == extractInterruptPayload(t)
        currentStep == extractCurrentStepFromThread(t)
        s1 == IF currentStep # "" THEN setWork(s, currentStep) ELSE s
        s2 == [s1 EXCEPT !.initOp.pc = "done"]
    IN  IF Truthy(payload)
        THEN LET s3 == Log([s2 EXCEPT !.threadId = s.initOp.savedTid], "UI")
                 s4 == setUiState(s3, "waiting_approval")
                 s5 == [s4 EXCEPT !.approvalCard = Shown, !.questionEl = QuestionText(payload)]
             IN  setStatus(renderPreview(s5, Get(payload, "analysis_preview")))
        ELSE Log([s2 EXCEPT !.storedThreadId = NoThread], "UI")

InitGetThreadOk ==
    /\ initOp.pc = "fetch"
    /\ \E t \in ThreadSnapshots : Becomes(initAfterGetThread(Cur, t))

InitGetThreadFail ==
    /\ initOp.pc = "fetch"
    /\ Becomes(Log([Cur EXCEPT !.initOp.pc = "done", !.storedThreadId = NoThread], "WARN"))

Next ==
    \/ Start
    \/ \E d \in Decisions : Decide(d)
    \/ Cancel
    \/ ClearAll
    \/ ClearLog
    \/ \E i \in OpIds : CreateThreadOk(i)
    \/ \E i \in OpIds : CreateThreadFail(i)
    \/ \E i \in OpIds : StreamOpened(i)
    \/ \E i \in OpIds : StreamOpenFail(i)
    \/ \E i \in OpIds : ReadFrame(i)
    \/ \E i \in OpIds : ReadDone(i)
    \/ \E i \in OpIds : ReadFail(i)
    \/ \E i \in OpIds : GetThreadOk(i)
    \/ \E i \in OpIds : GetThreadFail(i)
    \/ InitGetThreadOk
    \/ InitGetThreadFail

Spec == Init /\ [][Next]_vars

\* ---- the log journal at its full capacity ----
\* The journal alone, with MAX_LOG_ITEMS entries kept: entries are appended
\* one by one, each with the time of its creation (nowISO, a clock that counts
\* the entries created since the journal was last emptied), and the journal
\* is emptied by clearLog and clearAll.
StampOf(entry) == IF "timeISO" \in DOMAIN entry THEN entry.timeISO ELSE 0

NextStamp == 1 + (IF logItems = <<>> THEN 0 ELSE StampOf(logItems[1]))

Stamped(entry, time) ==
    [tag |-> entry.tag, agent |-> entry.agent, summary |-> entry.summary, timeISO |-> time]

InitLog == StartsAs(InitialUi)

\* any call of addLogEntry
AppendLog ==
    /\ NextStamp <= MaxAppends
    /\ Becomes(addLogEntryKeeping(Cur, Stamped(LogEntry("AGENT", "", "text"), NextStamp),
                                  MAX_LOG_ITEMS))

NextLog ==
    \/ AppendLog
    \/ ClearLog
    \/ ClearAll

SpecLog == InitLog /\ [][NextLog]_vars

\* ---- the read loop of runStream, byte by byte ----
\* The response body is a sequence of bytes; the reader hands it over in
\* chunks cut at arbitrary byte positions.  A byte is written as the character
\* it encodes in ASCII, CR and LF as the tokens below, and the two bytes of
\* the one non-ASCII character of the model as LeadByte, ContByte.
CR == "CR"
LF == "LF"
LeadByte == "C3"
ContByte == "A9"
\* the character LeadByte ContByte encodes, and U+FFFD
EAcute == "U+00E9"
Replacement == "U+FFFD"

\* the pieces a response body is made of
DataField == <<"d", "a", "t", "a", ":", "1">>
IdField == <<"i", "d", ":", LeadByte, ContByte>>
EventField == <<"e", "v", "e", "n", "t", ":", "x">>
LineBreaks == {<<CR>>, <<LF>>}
Fields == {DataField, IdField, EventField}

\* the bodies of at most n pieces, at most f of them fields
RECURSIVE BodiesOf(_, _)
BodiesOf(n, f) ==
    IF n = 0 THEN {<<>>}
    ELSE LET shorter == BodiesOf(n - 1, f)
         IN  shorter \cup {b \o p : b \in shorter, p \in LineBreaks}
                     \cup (IF f = 0 THEN {}
                           ELSE {b \o p : b \in BodiesOf(n - 1, f - 1), p \in Fields})

\* the response bodies of the model
Bodies == BodiesOf(MaxPieces, MaxFields)

\* decoder.decode(value, {stream: true}) of a TextDecoder("utf-8") that holds
\* the bytes `pending` of an unfinished character: the decoded text and the
\* bytes it holds back afterwards
RECURSIVE decode(_, _)
decode(pending, bytes) ==
    LET Then(c, r) == [text |-> <<c>> \o r.text, pending |-> r.pending]
    IN  IF bytes = <<>> THEN [text |-> <<>>, pending |-> pending]
        ELSE IF pending # <<>>
             THEN IF Head(bytes) = ContByte
                  THEN Then(EAcute, decode(<<>>, Tail(bytes)))
                  ELSE Then(Replacement, decode(<<>>, bytes))
        ELSE IF Head(bytes) = LeadByte THEN decode(<<LeadByte>>, Tail(bytes))
        ELSE IF Head(bytes) = ContByte THEN Then(Replacement, decode(<<>>, Tail(bytes)))
        ELSE Then(Head(bytes), decode(<<>>, Tail(bytes)))

\* text.replace(/\r\n/g, "\n"): one pass from the left
RECURSIVE replaceCRLF(_)
replaceCRLF(text) ==
    IF text = <<>> THEN <<>>
    ELSE IF Len(text) >= 2 /\ text[1] = CR /\ text[2] = LF
         THEN <<LF>> \o replaceCRLF(SubSeq(text, 3, Len(text)))
    ELSE <<text[1]>> \o replaceCRLF(Tail(text))

\* the characters String.prototype.trim removes
Whitespace == {CR, LF, " "}

\* text.trim()
RECURSIVE trimText(_)
trimText(text) ==
    IF text = <<>> THEN <<>>
    ELSE IF text[1] \in Whitespace THEN trimText(Tail(text))
    ELSE IF text[Len(text)] \in Whitespace THEN trimText(SubSeq(text, 1, Len(text) - 1))
    ELSE text

\* text.indexOf(c) + 1: the position of the first c, 0 when there is none
IndexOf(text, c) ==
    IF \E i \in 1..Len(text) : text[i] = c
    THEN CHOOSE i \in 1..Len(text) : text[i] = c /\ \A j \in 1..(i - 1) : text[j] # c
    ELSE 0

\* buffer.indexOf("\n\n") + 1
IndexOfBlankLine(text) ==
    LET At(i) == text[i] = LF /\ text[i + 1] = LF
    IN  IF \E i \in 1..(Len(text) - 1) : At(i)
        THEN CHOOSE i \in 1..(Len(text) - 1) : At(i) /\ \A j \in 1..(i - 1) : ~At(j)
        ELSE 0

\* text.split("\n")
RECURSIVE splitLines(_)
splitLines(text) ==
    LET i == IndexOf(text, LF)
    IN  IF i = 0 THEN <<text>>
        ELSE <<SubSeq(text, 1, i - 1)>> \o splitLines(SubSeq(text, i + 1, Len(text)))

\* line.startsWith(prefix)
startsWith(line, prefix) ==
    Len(line) >= Len(prefix) /\ SubSeq(line, 1, Len(prefix)) = prefix

\* line.slice(n).trim()
ValueAfter(line, n) == trimText(SubSeq(line, n + 1, Len(line)))

\* dataLines.join("\n")
RECURSIVE joinLines(_)
joinLines(lines) ==
    IF lines = <<>> THEN <<>>
    ELSE IF Len(lines) = 1 THEN lines[1]
    ELSE lines[1] \o <<LF>> \o joinLines(Tail(lines))

\* data = dataRaw; if (dataRaw) try { data = JSON.parse(dataRaw) } catch {}
\* Of the texts the pieces can form, JSON.parse accepts the numbers written
\* with the digit 1, with white space around them, and throws on the others.
dataOf(dataRaw) ==
    LET digits == trimText(dataRaw)
    IN  IF digits # <<>> /\ \A i \in 1..Len(digits) : digits[i] = "1"
        THEN [json |-> "number", text |-> digits]
        ELSE [json |-> "string", text |-> dataRaw]

\* the for loop of parseSseFrame over the lines of a frame
RECURSIVE parseLines(_, _)
parseLines(lines, acc) ==
    IF lines = <<>> THEN acc
    ELSE LET line == Head(lines)
             next ==
                 IF line = <<>> THEN acc
                 ELSE IF startsWith(line, <<":">>) THEN acc
                 ELSE IF startsWith(line, <<"e", "v", "e", "n", "t", ":">>)
                      THEN [acc EXCEPT !.eventName = ValueAfter(line, 6)]
                 ELSE IF startsWith(line, <<"d", "a", "t", "a", ":">>)
                      THEN [acc EXCEPT !.dataLines = Append(@, ValueAfter(line, 5))]
                 ELSE IF startsWith(line, <<"i", "d", ":">>)
                      THEN [acc EXCEPT !.id = ValueAfter(line, 3)]
                 ELSE acc
         IN  parseLines(Tail(lines), next)

parseSseFrame(frameText) ==
    LET normalized == replaceCRLF(frameText)
        parsed == parseLines(splitLines(normalized),
                             [eventName |-> <<>>, dataLines |-> <<>>, id |-> <<>>])
    IN  [id |-> parsed.id, event |-> parsed.eventName,
         data |-> dataOf(joinLines(parsed.dataLines))]

\* a faulty inner loop, which also hands over what is left after the last
\* blank line
RECURSIVE cutFramesAndRest(_, _)
cutFramesAndRest(buffer, events) ==
    LET sep == IndexOfBlankLine(buffer)
        left == trimText(buffer)
    IN  IF sep = 0
        THEN [buffer |-> <<>>,
              events |-> IF left = <<>> THEN events ELSE Append(events, parseSseFrame(left))]
        ELSE LET frame == trimText(SubSeq(buffer, 1, sep - 1))
                 rest == SubSeq(buffer, sep + 2, Len(buffer))
             IN  cutFramesAndRest(rest, IF frame = <<>> THEN events
                                        ELSE Append(events, parseSseFrame(frame)))

\* the inner while loop of runStream: cut the frames the buffer holds in full
\* and hand each non-blank one to onEvent
RECURSIVE cutFrames(_, _)
cutFrames(buffer, events) ==
    LET sep == IndexOfBlankLine(buffer)
    IN  IF sep = 0 THEN [buffer |-> buffer, events |-> events]
        ELSE LET frame == trimText(SubSeq(buffer, 1, sep - 1))
                 rest == SubSeq(buffer, sep + 2, Len(buffer))
             IN  cutFrames(rest, IF frame = <<>> THEN events
                                 ELSE Append(events, parseSseFrame(frame)))

\* one turn of the outer loop: reader.read() yields the next n bytes
readChunk(r, n) ==
    LET value == SubSeq(r.rest, 1, n)
        decoded == decode(r.decoder, value)
        buffer == replaceCRLF(r.buffer \o decoded.text)
        cut == cutFrames(buffer, r.events)
    IN  [r EXCEPT !.rest = SubSeq(r.rest, n + 1, Len(r.rest)),
                  !.decoder = decoded.pending,
                  !.buffer = cut.buffer,
                  !.events = cut.events]

\* the read loop about to read the response body `body`
ReadingOf(body) == [NotReading EXCEPT !.body = body, !.rest = body]

\* the frames runStream hands to onEvent when the reader yields the whole of
\* `body` as one chunk
oneChunk(body) ==
    IF body = <<>> THEN <<>> ELSE readChunk(ReadingOf(body), Len(body)).events

InitChunks == \E body \in Bodies : StartsAs([InitialUi EXCEPT !.reading = ReadingOf(body)])

\* reader.read() resolves with a chunk of the body
ReadChunk ==
    /\ ~reading.done
    /\ reading.rest # <<>>
    /\ \E n \in 1..Len(reading.rest) :
          Becomes([Cur EXCEPT !.reading = readChunk(reading, n)])

\* reader.read() resolves with done
ReadEnd ==
    /\ ~reading.done
    /\ reading.rest = <<>>
    /\ Becomes([Cur EXCEPT !.reading.done = TRUE])

NextChunks ==
    \/ ReadChunk
    \/ ReadEnd

SpecChunks == InitChunks /\ [][NextChunks]_vars

\* ---- extractInterruptPayload on its own ----
\* the payloads handed to it: a kind, a question, and possibly an
\* analysis_preview key (holding null, "", an empty list or a list of items)
\* and a value key of the payload's own
PayloadKinds == {"approval_request", "note"}
PayloadQuestions == {"", "Approve?"}
PayloadPreviews == {Null, Str(""), List(<<>>), List(<<Str("m1")>>)}

InterruptPayloads ==
    LET Base(k, q) == << <<"kind", Str(k)>>, <<"question", Str(q)>> >>
        PreviewPairs == {<<>>} \cup {<< <<"analysis_preview", v>> >> : v \in PayloadPreviews}
        ValuePairs == {<<>>, << <<"value", Str("v")>> >>}
    IN  {JObj(Base(k, q) \o pv \o vl) :
            k \in PayloadKinds, q \in PayloadQuestions, pv \in PreviewPairs, vl \in ValuePairs}

\* the four places extractInterruptPayload looks at, in its order
InterruptLocations ==
    {<<"root", "__interrupt__">>, <<"values", "__interrupt__">>,
     <<"root", "interrupts">>, <<"values", "interrupts">>}

\* the forms a candidate takes
InterruptForms == {"bare", "first of list", "wrapped", "first of list, wrapped"}

FormOf(p, form) ==
    CASE form = "bare" -> p
      [] form = "first of list" -> List(<<p, P2>>)
      [] form = "wrapped" -> JObj(<< <<"value", p>> >>)
      [] OTHER -> List(<<JObj(<< <<"value", p>> >>), P2>>)

\* a frame's data or a thread snapshot that holds p at loc in the given form
\* and nothing else but, possibly, a status
HolderOf(p, loc, form, status) ==
    LET candidate == << <<loc[2], FormOf(p, form)>> >>
        held == IF loc[1] = "root" THEN candidate
                ELSE << <<"values", JObj(candidate)>> >>
    IN  JObj(held \o (IF status = "" THEN <<>> ELSE << <<"status", Str(status)>> >>))

InitExtract ==
    \E p \in InterruptPayloads, loc \in InterruptLocations, form \in InterruptForms,
       status \in {"", "interrupted"} :
        StartsAs([InitialUi EXCEPT !.call =
            [of |-> "extractInterruptPayload", payload |-> p, loc |-> loc, form |-> form,
             obj |-> HolderOf(p, loc, form, status), returned |-> FALSE, result |-> Null]])

Extract ==
    /\ call.of = "extractInterruptPayload"
    /\ ~call.returned
    /\ Becomes([Cur EXCEPT !.call.returned = TRUE,
                           !.call.result = extractInterruptPayload(call.obj)])

NextExtract ==
    \/ Extract

SpecExtract == InitExtract /\ [][NextExtract]_vars

\* ---- one run from a fresh page, with nothing failing and nothing cancelled ----
\* The page is loaded with no saved thread, the user starts once and then
\* answers the approval; every request is answered, and the user neither
\* cancels nor resets.
InitScenario == Init /\ initOp.savedTid = NoThread

FirstStart ==
    /\ Launched("start") = 0
    /\ Start

NextScenario ==
    \/ FirstStart
    \/ \E d \in Decisions : Decide(d)
    \/ \E i \in OpIds : CreateThreadOk(i)
    \/ \E i \in OpIds : StreamOpened(i)
    \/ \E i \in OpIds : ReadFrame(i)
    \/ \E i \in OpIds : ReadDone(i)
    \/ \E i \in OpIds : GetThreadOk(i)

SpecScenario == InitScenario /\ [][NextScenario]_vars

\* ---- handleSseEvent on its own ----
\* The frames handed to it are put together from an event name and, in the
\* data object, an interrupt part, a values part and an updates mapping, each
\* of which may be missing; the mapping is found under the key updates or is
\* the data object itself.
FrameEvents == {"updates", "values", "metadata"}

\* a text longer than the 140 characters of a log summary
Ten == "0123456789"
LongText == Ten \o Ten \o Ten \o Ten \o Ten \o Ten \o Ten \o Ten \o Ten \o Ten
                \o Ten \o Ten \o Ten \o Ten \o Ten

InterruptParts ==
    { <<>>,
      << <<"__interrupt__", List(<<JObj(<< <<"value", P1>> >>)>>)>> >>,
      << <<"status", Str("interrupted")>> >> }

ValuesParts ==
    { <<>>,
      << <<"values", JObj(<< <<"current_step", Str("summary_agent")>> >>)>> >>,
      << <<"values", JObj(<< <<"current_step", Str("")>> >>)>> >> }

\* what a node reports
NodeStates ==
    { JObj(<<>>),
      JObj(<< <<"current_step", Str("market_agent")>> >>),
      JObj(<< <<"final_report", Str("R")>> >>),
      JObj(<< <<"final_report", Str(LongText)>> >>),
      JObj(<< <<"research_messages", List(<<JObj(<< <<"content", Str("found")>> >>)>>)>>,
              <<"current_step", Str("technical_agent")>> >>) }

\* mappings from node keys to node states: research_start is no known node
UpdateMappings ==
    {<< <<k, n>> >> : k \in {"research_agent", "research_start"}, n \in NodeStates}
    \cup {<< <<"research_start", n1>>, <<"report_agent", n2>> >> :
             n1 \in NodeStates, n2 \in NodeStates}

UpdatesParts ==
    {<<>>} \cup UpdateMappings \cup {<< <<"updates", JObj(m)>> >> : m \in UpdateMappings}

FrameInputs ==
    {Frame(e, JObj(i \o v \o u)) :
        e \in FrameEvents, i \in InterruptParts, v \in ValuesParts, u \in UpdatesParts}
    \cup {Frame(e, d) : e \in FrameEvents, d \in {Null, Str("text")}}

\* the page when a frame arrives: a run is under way, or an approval is
\* already displayed; the work label is the initial one or that of a node
PagesOnFrame ==
    LET Running(st) == setUiState(InitialUi, st)
        pages == {Running("starting"), Running("resuming"),
                  showApprovalIfNeeded(Running("starting"), P2)}
    IN  {setWork(page, w) : page \in pages, w \in {"-", "tools"}}

InitFrames ==
    \E page \in PagesOnFrame, ev \in FrameInputs :
        StartsAs([page EXCEPT !.call = [of |-> "handleSseEvent", ev |-> ev,
                                        returned |-> FALSE]])

HandleFrame ==
    /\ call.of = "handleSseEvent"
    /\ ~call.returned
    /\ Becomes(handleSseEvent([Cur EXCEPT !.call.returned = TRUE], call.ev))

NextFrames ==
    \/ HandleFrame

SpecFrames == InitFrames /\ [][NextFrames]_vars

\* ---- the program when every network request is answered ----
\* Every pending request eventually completes or fails: the thread creation,
\* the stream open, the read loop (the stream ends or breaks), the state
\* fetch of each operation, and the fetch of initAsync.  Nothing is assumed
\* of the user.
EveryRequestAnswered ==
    /\ \A i \in OpIds :
          /\ WF_vars(CreateThreadOk(i) \/ CreateThreadFail(i))
          /\ WF_vars(StreamOpened(i) \/ StreamOpenFail(i))
          /\ WF_vars(ReadDone(i) \/ ReadFail(i))
          /\ WF_vars(GetThreadOk(i) \/ GetThreadFail(i))
    /\ WF_vars(InitGetThreadOk \/ InitGetThreadFail)

SpecAnswered == Init /\ [][Next]_vars /\ EveryRequestAnswered

\* ---- claims ----
Busy == {"starting", "resuming"}
Settled == {"waiting_approval", "done", "error"}

\* the operation of a step that takes a frame from its stream
TakesFrame(i) == ops'[i].count > ops[i].count

\* a step in which operation j's controller is aborted by a newer runStream
GetsSuperseded(j) == ops[j].aborted = "no" /\ ops'[j].aborted = "superseded"

\* C1: at most one run stream request is open at any time, and the open one
\* is the one currentController refers to, so that the next runStream aborts it.
C1_OneStreamInFlight ==
    \A i, j \in OpIds :
        StreamOpen(ops[i]) =>
            /\ currentController = i
            /\ (StreamOpen(ops[j]) => i = j)

\* a newer run stream is open after it has aborted the one that was open before
C1_Witness ==
    \E i, j \in OpIds :
        /\ ops[j].aborted = "superseded"
        /\ StreamOpen(ops[i])
        /\ currentController = i

\* C2: every frame handed to handleSseEvent comes from the stream of the
\* current controller; an operation that was superseded takes no further step.
C2_NoFrameFromSuperseded ==
    [][\A i \in OpIds :
          /\ TakesFrame(i) => currentController = i
          /\ ops[i].aborted = "superseded" => ops'[i] = ops[i]]_vars

\* the superseding stream has delivered a frame after the supersession
C2_Witness ==
    \E i, j \in OpIds :
        /\ ops[j].aborted = "superseded"
        /\ ops[i].pc = "read"
        /\ ops[i].count > 0
        /\ currentController = i

\* C3 (as claimed): the step in which an operation is superseded does not set
\* uiState to error, does not show the error banner and appends no ERROR entry.
C3_SupersededNotShownAsError ==
    [][\A j \in OpIds :
          GetsSuperseded(j) =>
              /\ uiState' # "error"
              /\ errorBanner'.hidden
              /\ (logItems' = <<>> \/ logItems'[1].tag # "ERROR")]_vars

\* a step in which the run stream of operation i ends, however it ends
StreamEnds(i) == StreamOpen(ops[i]) /\ ~StreamOpen(ops'[i])

Finishes(i) == ops[i].pc # "done" /\ ops'[i].pc = "done"

\* the last operation launched, 0 when none was
LastLaunched ==
    IF FreeOps = OpIds THEN 0
    ELSE CHOOSE i \in OpIds \ FreeOps : \A j \in OpIds \ FreeOps : j <= i

\* a step of a user action that the run state machine reacts to
UserStep == Start \/ (\E d \in Decisions : Decide(d)) \/ ClearAll

\* C5 (as claimed): when an operation finishes uiState is waiting_approval,
\* done or error, and it keeps its value until the next start, decision or
\* reset: once the last operation launched has finished (so that no start or
\* decision came after it), only such a user action changes uiState. The
\* answer to the startup rehydration is left aside.
C5_SettledUntilUserAction ==
    [][/\ \A i \in OpIds : Finishes(i) => uiState' \in Settled
       /\ (/\ LastLaunched # 0
           /\ ops[LastLaunched].pc = "done"
           /\ uiState \in Settled
           /\ ~UserStep
           /\ ~InitGetThreadOk) => uiState' = uiState]_vars

\* C6: uiState changes to idle only in a step of clearAll.
C6_IdleOnlyByReset ==
    [][(uiState' = "idle" /\ uiState # "idle") => ClearAll]_vars

\* the state machine is back in idle after an operation has finished
C6_Witness ==
    /\ uiState = "idle"
    /\ \E i \in OpIds : ops[i].pc = "done"

\* a step that launches a start operation
LaunchesStart == \E i \in OpIds : ops[i].pc = "none" /\ ops'[i].kind = "start"

\* C7 (as claimed): uiState changes to starting only from idle (checked where
\* the page was loaded with no saved thread, so that no rehydration interferes).
C7_StartingOnlyFromIdle ==
    [][(uiState' = "starting" /\ uiState # "starting" /\ initOp.savedTid = NoThread)
          => uiState = "idle"]_vars

\* C7 (amended): uiState changes to starting only in the step of a start
\* operation whose thread was created, and a start operation is launched only
\* while uiState is idle, done or error.
C7_StartingOnlyByStart ==
    [][/\ (uiState' = "starting" /\ uiState # "starting") =>
              \E i \in OpIds : ops[i].kind = "start" /\ CreateThreadOk(i)
       /\ LaunchesStart => uiState \in {"idle", "done", "error"}]_vars

\* a start launched after an earlier run has finished is running
C7_Witness ==
    /\ uiState = "starting"
    /\ \E i, j \in OpIds :
          /\ ops[i].kind = "start" /\ ops[i].pc = "open"
          /\ ops[j].pc = "done" /\ ops[j].aborted = "no"
          /\ j < i

\* C8 (as claimed): apart from the startup rehydration, uiState changes to
\* waiting_approval only from starting or resuming.
C8_WaitingOnlyFromBusy ==
    [][(uiState' = "waiting_approval" /\ uiState # "waiting_approval" /\ ~InitGetThreadOk)
          => uiState \in Busy]_vars

\* a step that sends a resume request (runs/stream with command.resume)
SendsResume == \E i \in OpIds : ops[i].kind \in {"none", "resume"}
                                /\ ops[i].pc # "open"
                                /\ ops'[i].kind = "resume" /\ ops'[i].pc = "open"

\* C9 (as claimed): uiState changes to resuming only from waiting_approval and
\* only in the step of a decision, and every resume request is sent in a step
\* that starts in waiting_approval.
C9_ResumingOnlyFromWaiting ==
    [][/\ (uiState' = "resuming" /\ uiState # "resuming") =>
              /\ uiState = "waiting_approval"
              /\ \E d \in Decisions : Decide(d)
       /\ SendsResume => uiState = "waiting_approval"]_vars

ApprovalShown == [hidden |-> approvalCard.hidden, question |-> questionEl, preview |-> previewEl]

\* a step in which the run stream of operation i delivers frame ev
ReadFrameOf(i, ev) ==
    /\ ops[i].pc = "read"
    /\ ops[i].count < MaxFrames
    /\ Becomes(handleSseEvent([Cur EXCEPT !.ops[i].count = @ + 1], ev))

\* a step in which the state fetch of operation i is answered with threadObj
GetThreadOf(i, threadObj) ==
    /\ ops[i].pc = "fetch"
    /\ Becomes(afterGetThread(Cur, i, threadObj))

\* the approval card shows payload p
Displays(p) ==
    /\ ~approvalCard'.hidden
    /\ questionEl' = QuestionText(p)
    /\ previewEl' = (IF Get(p, "analysis_preview").t = "list"
                     THEN Get(p, "analysis_preview").items ELSE <<>>)

\* C11 (as claimed): while uiState is waiting_approval the approval card is
\* visible and shows the payload that caused the entry into waiting_approval:
\* a frame or a state fetch that enters waiting_approval displays its own
\* payload, and no step that stays in waiting_approval changes what is shown.
C11_OnePayloadWhileWaiting ==
    [][/\ uiState' = "waiting_approval" => ~approvalCard'.hidden
       /\ \A i \in OpIds :
             /\ \A ev \in StreamFrames :
                   (ReadFrameOf(i, ev) /\ uiState # "waiting_approval"
                        /\ uiState' = "waiting_approval")
                      => Displays(extractInterruptPayload(ev.data))
             /\ \A t \in ThreadSnapshots :
                   (GetThreadOf(i, t) /\ uiState # "waiting_approval"
                        /\ uiState' = "waiting_approval")
                      => Displays(extractInterruptPayload(t))
       /\ (uiState = "waiting_approval" /\ uiState' = "waiting_approval")
             => ApprovalShown' = ApprovalShown]_vars

\* a step in which operation i sends its runs/stream request
OpensStream(i) == ops[i].pc # "open" /\ ops'[i].pc = "open"

EntersWaiting == uiState # "waiting_approval" /\ uiState' = "waiting_approval"

\* C13 (as claimed): the in-memory thread id is the thread on which the
\* displayed approval was observed (the thread of the frame or state fetch
\* that entered waiting_approval, or the rehydrated thread when the
\* rehydration displays its approval) for as long as uiState stays
\* waiting_approval, and a resume request is sent in the step of the decision,
\* on that thread, with no thread created for it.
C13_ResumeOnApprovalThread ==
    [][/\ \A i \in OpIds :
             /\ \A ev \in StreamFrames :
                   (ReadFrameOf(i, ev) /\ EntersWaiting) => threadId' = ops[i].tid
             /\ \A t \in ThreadSnapshots :
                   (GetThreadOf(i, t) /\ EntersWaiting) => threadId' = ops[i].tid
             /\ (OpensStream(i) /\ ops'[i].kind = "resume") =>
                   /\ \E d \in Decisions : Decide(d)
                   /\ threadId # NoThread
                   /\ ops'[i].tid = threadId
       /\ (InitGetThreadOk /\ uiState' = "waiting_approval") =>
             \/ threadId' = initOp.savedTid
             \/ uiState = "waiting_approval" /\ threadId' = threadId
                    /\ ApprovalShown' = ApprovalShown
       /\ (uiState = "waiting_approval" /\ uiState' = "waiting_approval"
               /\ ~InitGetThreadOk)
             => threadId' = threadId]_vars

\* C14 (as claimed): a decision submitted while there is no thread id ends the
\* resume at once in error: the resume neither awaits POST /threads nor sends
\* a runs/stream request, and no resume ever creates a thread.
C14_ResumeWithoutThreadFails ==
    [][/\ \A d \in Decisions :
             (Decide(d) /\ threadId = NoThread) =>
                 /\ uiState' = "error"
                 /\ ops'[NextOp].pc = "done"
       /\ \A i \in OpIds : ops'[i].kind = "resume" => ops'[i].pc # "create"]_vars

GetsAborted(j) == ops[j].aborted = "no" /\ ops'[j].aborted # "no"

\* C16: an operation whose controller was aborted changes neither threadId nor
\* the persisted thread id: in the step of the abort the two ids are left as
\* they were, or are the id of the thread just created for the superseding
\* operation, and from then on the aborted operation takes no step at all.
C16_AbortedKeepsThreadId ==
    [][\A j \in OpIds :
          /\ GetsAborted(j) =>
                \/ threadId' = threadId /\ storedThreadId' = storedThreadId
                \/ \E i \in OpIds \ {j} :
                      /\ CreateThreadOk(i)
                      /\ threadId' = NewThreadFor(i)
                      /\ storedThreadId' = NewThreadFor(i)
          /\ ops[j].aborted # "no" => ops'[j] = ops[j]]_vars

\* after a supersession the superseding run has ended its stream and still
\* owns the in-memory and the persisted thread id
C16_Witness ==
    \E i, j \in OpIds :
        /\ ops[j].aborted = "superseded"
        /\ ops[i].pc = "fetch"
        /\ threadId = ops[i].tid
        /\ storedThreadId = ops[i].tid

\* a step in which the rehydration fetch of initAsync is answered with t
InitGetThreadOf(t) ==
    /\ initOp.pc = "fetch"
    /\ Becomes(initAfterGetThread(Cur, t))

\* what a rehydration that finds nothing pending leaves behind: the persisted
\* id removed, uiState, threadId and the error banner as they were (uiState
\* idle when no run was started in the meantime)
RehydrationDiscards ==
    /\ storedThreadId' = NoThread
    /\ threadId' = threadId
    /\ uiState' = uiState
    /\ (FreeOps = OpIds => uiState' = "idle")
    /\ errorBanner' = errorBanner

RemovesStoredThread == storedThreadId # NoThread /\ storedThreadId' = NoThread
BlanksStoredTheme == storedTheme # "" /\ storedTheme' = ""

RehydrationFindsNothing ==
    \/ InitGetThreadFail
    \/ \E t \in ThreadSnapshots :
          InitGetThreadOf(t) /\ ~Truthy(extractInterruptPayload(t))

NewestFirst(items) ==
    \A i, j \in 1..Len(items) : i < j => StampOf(items[i]) > StampOf(items[j])

\* C19: the journal never holds more than MAX_LOG_ITEMS entries and lists them
\* newest first; an append puts the new entry first and keeps the entries that
\* were there, in their order, except that at capacity the last (oldest) one
\* is dropped.
C19_JournalBounded ==
    [][/\ Len(logItems') <= MAX_LOG_ITEMS
       /\ NewestFirst(logItems')
       /\ AppendLog =>
             /\ StampOf(logItems'[1]) = NextStamp
             /\ Tail(logItems') =
                   (IF Len(logItems) = MAX_LOG_ITEMS
                    THEN SubSeq(logItems, 1, MAX_LOG_ITEMS - 1)
                    ELSE logItems)]_vars

\* the journal is full and entries appended since it was last emptied have
\* been evicted
C19_Witness ==
    /\ Len(logItems) = MAX_LOG_ITEMS
    /\ StampOf(logItems[1]) > MAX_LOG_ITEMS + 1
    /\ StampOf(logItems[MAX_LOG_ITEMS]) > 1

\* C20: however the reader cuts a response body into chunks, runStream hands
\* the same frames to onEvent as when the body arrives in one chunk: as many,
\* in the same order, each with the same event name, id and data.  (Two ways
\* of cutting the body deliver the same frames exactly when each delivers the
\* frames of the one-chunk reading.)
C20_SplitInvariant ==
    reading.done => reading.events = oneChunk(reading.body)

\* the validity test as the claim words it: analysis_preview present
ValidAsWorded(p) ==
    \/ Get(p, "kind") = Str("approval_request")
    \/ Get(p, "question") # Str("")
    \/ HasKey(p, "analysis_preview")

\* C21 as claimed: a payload with kind approval_request, or a non-empty
\* question, or an analysis_preview key, held at one of the four places, bare
\* or first of a list or wrapped in {value: ...}, is what
\* extractInterruptPayload returns.
C21_PayloadFoundAnywhere ==
    (call.of = "extractInterruptPayload" /\ call.returned /\ ValidAsWorded(call.payload))
        => call.result = call.payload

\* C21 amended: the same, for a payload that has no value key of its own and
\* whose kind is approval_request, or whose question is non-empty, or whose
\* analysis_preview is truthy (a list, even an empty one).
C21_TruthyPayloadFoundAnywhere ==
    (/\ call.of = "extractInterruptPayload"
     /\ call.returned
     /\ ~HasKey(call.payload, "value")
     /\ \/ Get(call.payload, "kind") = Str("approval_request")
        \/ Get(call.payload, "question") # Str("")
        \/ Get(call.payload, "analysis_preview").t = "list")
        => call.result = call.payload

\* a payload valid by its empty preview list alone, wrapped in the first
\* element of values.interrupts, is returned
C21_Witness ==
    /\ call.of = "extractInterruptPayload"
    /\ call.returned
    /\ call.loc = <<"values", "interrupts">>
    /\ call.form = "first of list, wrapped"
    /\ Get(call.payload, "kind") = Str("note")
    /\ Get(call.payload, "question") = Str("")
    /\ Get(call.payload, "analysis_preview") = List(<<>>)
    /\ call.result = call.payload

\* the frame of StreamFrames that carries the interrupt P1, and the snapshot
\* of ThreadSnapshots with final_report = "R" and no interrupt
InterruptFrame ==
    Frame("updates", JObj(<< <<"__interrupt__", List(<<JObj(<< <<"value", P1>> >>)>>)>> >>))
ReportSnapshot ==
    JObj(<< <<"values", JObj(<< <<"current_step", Str("report_agent")>>,
                                 <<"final_report", Str("R")>> >>)>> >>)

\* C22: in a run from a fresh page with nothing failing, cancelled or reset:
\* the interrupt frame of the start's stream puts uiState to waiting_approval
\* and displays the question and the preview of that interrupt; the retry
\* button then sends, in the same step, a resume request with decision
\* "retry" on the thread the start created, with no thread created for it; and
\* the state fetch of the resume answered with final_report = "R" and no
\* interrupt puts uiState to done and displays "R" as the report.
C22_ScenarioA ==
    [][/\ \A i \in OpIds :
             (ops[i].kind = "start" /\ ReadFrameOf(i, InterruptFrame)) =>
                 /\ uiState' = "waiting_approval"
                 /\ Displays(P1)
       /\ Decide("retry") =>
             \E j \in OpIds :
                 /\ ops[j].kind = "none"
                 /\ ops'[j].kind = "resume"
                 /\ ops'[j].pc = "open"
                 /\ ops'[j].decision = "retry"
                 /\ \E i \in OpIds : ops[i].kind = "start" /\ ops'[j].tid = NewThreadFor(i)
                 /\ threadId' = ops'[j].tid
                 /\ storedThreadId' = ops'[j].tid
       /\ \A i \in OpIds :
             (ops[i].kind = "resume" /\ GetThreadOf(i, ReportSnapshot)) =>
                 /\ uiState' = "done"
                 /\ ~reportCard'.hidden
                 /\ reportEl' = "R"]_vars

\* the start has finished, the approval it displayed was answered with retry,
\* the stream of that resume on the start's thread has ended with a frame
\* delivered, and its state fetch is awaited
C22_Witness ==
    \E i, j \in OpIds :
        /\ ops[i].kind = "start" /\ ops[i].pc = "done" /\ ops[i].aborted = "no"
        /\ ops[j].kind = "resume" /\ ops[j].pc = "fetch"
        /\ ops[j].decision = "retry"
        /\ ops[j].tid = NewThreadFor(i)
        /\ ops[j].count = 1
        /\ threadId = ops[j].tid
        /\ uiState = "resuming"

\* the snapshot of ThreadSnapshots with no interrupt and no report
EmptySnapshot ==
    JObj(<< <<"status", Str("idle")>>,
            <<"values", JObj(<< <<"final_report", Str(" ")>> >>)>> >>)

\* a step in which the stream of operation i ends with no frame delivered
EndsWithNoFrame(i) == ops[i].count = 0 /\ ReadDone(i)

\* a step in which the state fetch of operation i, whose stream delivered no
\* frame, is answered with no interrupt and no report
FetchFindsNothing(i) == ops[i].count = 0 /\ GetThreadOf(i, EmptySnapshot)

\* C23 (as claimed): a stream that ends with no frame delivered does not fail
\* the run: that step journals one WARN entry, leaves uiState and the error
\* banner as they are and goes on to the state fetch; and when the fetch shows
\* no interrupt and no report, uiState becomes done with the placeholder for
\* the missing report and no error is displayed.
C23_EmptyStreamIsNotAFailure ==
    [][\A i \in OpIds :
          /\ EndsWithNoFrame(i) =>
                /\ logItems' = Log(Cur, "WARN").logItems
                /\ ops'[i].pc = "fetch"
                /\ uiState' = uiState
                /\ errorBanner' = errorBanner
          /\ FetchFindsNothing(i) =>
                /\ uiState' = "done"
                /\ reportEl' = "NO_REPORT_YET"
                /\ errorBanner'.hidden]_vars

\* C24: the approve, retry and reject buttons launch a resume with the
\* decision "y", "retry" and "n" respectively; a resume is launched by nothing
\* but these buttons; and the runs/stream request of a resume, whether sent
\* in the step of the click or after a thread was created for it, carries the
\* decision of the click, which is one of the three tokens.
C24_DecisionTokens ==
    [][/\ \A d \in Decisions :
             Decide(d) => \E j \in OpIds : /\ ops[j].kind = "none"
                                           /\ ops'[j].kind = "resume"
                                           /\ ops'[j].decision = d
       /\ \A j \in OpIds :
             (ops[j].kind # "resume" /\ ops'[j].kind = "resume") =>
                 \E d \in Decisions : Decide(d)
       /\ \A j \in OpIds :
             (OpensStream(j) /\ ops'[j].kind = "resume") =>
                 /\ ops'[j].decision \in Decisions
                 /\ ops[j].kind = "resume" => ops'[j].decision = ops[j].decision]_vars

\* the request of a resume launched by the reject button is being sent
C24_Witness ==
    \E j \in OpIds : ops[j].kind = "resume" /\ ops[j].pc = "open" /\ ops[j].decision = "n"

\* a step in which operation i throws for a reason other than an abort, and
\* the messages that failure can carry
FailsAt(i, pc) ==
    CASE pc = "create" -> CreateThreadFail(i)
      [] pc = "open" -> StreamOpenFail(i)
      [] pc = "read" -> ReadFail(i)
      [] pc = "fetch" -> GetThreadFail(i)

MessagesAt(pc) ==
    CASE pc = "create" -> CreateThreadErrors
      [] pc = "open" -> StreamOpenErrors
      [] pc = "read" -> StreamReadErrors
      [] pc = "fetch" -> GetThreadErrors

\* C25: when a start or resume throws (POST /threads fails, runs/stream
\* answers with a non-success status, the connection is lost while reading,
\* the state fetch fails), that step sets uiState to error, shows the message
\* of the failure in the error banner, journals an ERROR entry with that
\* message, ends the operation, and leaves the start and reset buttons enabled.
C25_FailureShownAndNotStuck ==
    [][\A i \in OpIds : \A pc \in {"create", "open", "read", "fetch"} :
          FailsAt(i, pc) =>
              /\ uiState' = "error"
              /\ ~errorBanner'.hidden
              /\ errorBanner'.textContent \in MessagesAt(pc)
              /\ logItems' # <<>>
              /\ logItems'[1] = LogEntry("ERROR", "", errorBanner'.textContent)
              /\ ops'[i].pc = "done"
              /\ ~startBtn'.disabled
              /\ ~clearBtn'.disabled]_vars

\* a resume has failed at its state fetch: the failure is shown and journaled
\* and the start button is enabled
C25_Witness ==
    /\ \E i \in OpIds : ops[i].kind = "resume" /\ ops[i].pc = "done" /\ ops[i].aborted = "no"
    /\ uiState = "error"
    /\ errorBanner = [hidden |-> FALSE, textContent |-> "get thread failed"]
    /\ logItems = <<LogEntry("ERROR", "", "get thread failed")>>
    /\ ~startBtn.disabled
    /\ ~clearBtn.disabled

\* C26 (as claimed): a step that cancels an in-flight operation does so for
\* one of the reasons user, superseded, timeout, and the message surfaced for
\* the cancelled operation is the message of that reason and of no other
\* reason.
C26_CancelReasonSurfaced ==
    [][\A j \in OpIds :
          (ops[j].aborted = "no" /\ ops'[j].aborted # "no") =>
              /\ ops'[j].aborted \in CancelReasons
              /\ errorBanner'.textContent = AbortMessage(ops'[j].aborted)
              /\ \A other \in CancelReasons \ {ops'[j].aborted} :
                    errorBanner'.textContent # AbortMessage(other)]_vars

\* the interrupt payload of the frame handed to handleSseEvent, Null if none
InterruptOf(ev) == IF IsObjectLike(ev.data) THEN extractInterruptPayload(ev.data) ELSE Null

\* the journal once the HITL entry of an approval is put in front of it and
\* the entries beyond those kept are dropped
WithHitlEntry(items) ==
    LET added == <<LogEntry("HITL", NodeLabel("human_approval"), "HITL")>> \o items
    IN  SubSeq(added, 1, IF Len(added) > LogKept THEN LogKept ELSE Len(added))

\* C27: a frame whose data yields an interrupt payload (a valid candidate or
\* the payload synthesized from status "interrupted") leaves the work label
\* as it is and journals nothing but, possibly, the HITL entry of the
\* approval, whatever its event name and whatever values and updates it also
\* carries.
C27_InterruptFrameIsInterruptOnly ==
    [][(HandleFrame /\ Truthy(InterruptOf(call.ev))) =>
          /\ workBadge' = workBadge
          /\ \/ logItems' = logItems
             \/ logItems' = WithHitlEntry(logItems)
          /\ uiState' = "waiting_approval"]_vars

\* an updates frame that carries an interrupt together with a values step and
\* the report of a known node has been handled: the approval is displayed,
\* the work label is the initial one and the journal holds the HITL entry
C27_Witness ==
    /\ call.of = "handleSseEvent"
    /\ call.returned
    /\ call.ev.event = "updates"
    /\ Get(call.ev.data, "__interrupt__") # Null
    /\ ValuesStep(call.ev.data) = "summary_agent"
    /\ pickNodeKeyFromUpdates(call.ev.data) = "research_agent"
    /\ uiState = "waiting_approval"
    /\ questionEl = "Approve?"
    /\ workBadge = NodeLabel("-")
    /\ logItems = <<LogEntry("HITL", NodeLabel("human_approval"), "HITL")>>

\* the state the first known node of the frame's mapping reports, and the
\* text derived from it
NodeStateOf(ev) == Get(UpdatesOf(ev.data), pickNodeKeyFromUpdates(ev.data))
NodeTextOf(ev) == extractReadableOutputFromNodeState(NodeStateOf(ev))

\* the text cut to n characters, with the ellipsis marker if it was longer
CutTo(text, n) == IF Len(text) > n THEN SubSeq(text, 1, n) \o ELLIPSIS ELSE text

\* C28 (as claimed): an updates frame with no interrupt whose mapping has the
\* key of a known node journals an AGENT entry for the first such node, whose
\* summary is the text derived from the node's state cut to 140 characters.
C28_NodeResultJournaled ==
    [][(/\ HandleFrame
        /\ ~Truthy(InterruptOf(call.ev))
        /\ call.ev.event = "updates"
        /\ pickNodeKeyFromUpdates(call.ev.data) # "") =>
          logItems' = <<LogEntry("AGENT", NodeLabel(pickNodeKeyFromUpdates(call.ev.data)),
                                 CutTo(NodeTextOf(call.ev), 140))>>]_vars

\* the first non-empty current_step among the entries of the frame's updates mapping
UpdatesStepOf(ev) == pickCurrentStepFromUpdates(ev.data)

\* the current_step under the frame's values key
ValuesStepOf(ev) == IF IsObjectLike(ev.data) THEN ValuesStep(ev.data) ELSE ""

\* C29 (as claimed): after a frame with no interrupt and no noise event name,
\* the work label is that of the current_step under values when it is
\* non-empty; when there is none and the frame is an updates frame, it is that
\* of the first entry of the updates mapping with a non-empty current_step;
\* and when there is neither it is left as it was.
C29_WorkLabelPrefersValues ==
    [][(/\ HandleFrame
        /\ ~Truthy(InterruptOf(call.ev))
        /\ call.ev.event \notin NoiseEvents) =>
          /\ ValuesStepOf(call.ev) # "" => workBadge' = NodeLabel(ValuesStepOf(call.ev))
          /\ (/\ ValuesStepOf(call.ev) = ""
              /\ call.ev.event = "updates"
              /\ UpdatesStepOf(call.ev) # "") => workBadge' = NodeLabel(UpdatesStepOf(call.ev))
          /\ (ValuesStepOf(call.ev) = "" /\ UpdatesStepOf(call.ev) = "") =>
                workBadge' = workBadge]_vars

\* the text the buffer holds when ReadChunk takes the next n bytes, once they
\* are decoded, appended and normalised and before any frame is cut
BufferedText(n) ==
    replaceCRLF(reading.buffer \o decode(reading.decoder, SubSeq(reading.rest, 1, n)).text)

IsSuffix(tail, text) ==
    /\ Len(tail) <= Len(text)
    /\ SubSeq(text, Len(text) - Len(tail) + 1, Len(text)) = tail

\* a step of ReadChunk takes bytes off the body; a step of ReadEnd ends the loop
TakesChunk == Len(reading'.rest) < Len(reading.rest)

EndsStream == ~reading.done /\ reading'.done

\* C30: what the buffer holds after its last blank line is never handed to
\* onEvent.  A chunk that brings no blank line into the buffer delivers no
\* frame and is kept in the buffer whole; after any chunk the buffer is the
\* end of the buffered text and holds no blank line, and the frames delivered
\* before are still the first ones; and the end of the stream delivers
\* nothing and leaves the buffer as it is.
C30_TrailingBytesStayBuffered ==
    [][/\ TakesChunk =>
             \A n \in {Len(reading.rest) - Len(reading'.rest)} :
             \A text \in {BufferedText(n)} :
             \A after \in {reading'} :
                /\ IndexOfBlankLine(text) = 0 =>
                      /\ after.events = reading.events
                      /\ after.buffer = text
                /\ IsSuffix(after.buffer, text)
                /\ IndexOfBlankLine(after.buffer) = 0
                /\ Len(after.events) >= Len(reading.events)
                /\ SubSeq(after.events, 1, Len(reading.events)) = reading.events
       /\ EndsStream =>
             /\ reading.rest = <<>>
             /\ reading'.events = reading.events
             /\ reading'.buffer = reading.buffer]_vars

\* the stream has ended after one terminated frame and an unterminated one:
\* the first was delivered, the second is still in the buffer
C30_Witness ==
    /\ reading.done
    /\ reading.body = DataField \o <<LF, LF>> \o IdField
    /\ Len(reading.events) = 1
    /\ reading.events[1].data.text = <<"1">>
    /\ reading.buffer = <<"i", "d", ":", EAcute>>

\* C31: the approval card is displayed only while an approval is awaited: in
\* every reachable state in which uiState is not waiting_approval, the
\* approval card is hidden.
C31_ApprovalCardOnlyWhileWaiting ==
    uiState # "waiting_approval" => approvalCard.hidden

\* a decision button can be clicked
DecisionEnabled == \E d \in Decisions : ~DecisionBtn(d).disabled

\* C32: a decision can be submitted only when no run operation is in flight:
\* while a decision button is enabled no start or resume operation is awaiting
\* its thread, its stream or its state fetch, and a decision step aborts no
\* stream.
C32_DecisionOnlyWhenNothingInFlight ==
    [][/\ DecisionEnabled => \A i \in OpIds : ~InFlight(ops[i])
       /\ \A j \in OpIds :
             (ops'[j].aborted # ops[j].aborted) => (\A i \in OpIds : ops'[i].kind = ops[i].kind)]_vars

\* the step in which the rehydration fetch of initAsync completes
RehydrationEnds == initOp.pc = "fetch" /\ initOp'.pc = "done"

\* a run was started before the rehydration fetch has answered
RunStarted == \E i \in OpIds : ops[i].kind = "start"

\* C33: the completion of the rehydration fetch never overrides a run started
\* in the meantime: it changes neither uiState nor the in-memory thread id and
\* does not remove the thread id that run persisted; and in every state a
\* non-null in-memory thread id equals the persisted one.
C33_RehydrationYieldsToRun ==
    [][/\ (RehydrationEnds /\ RunStarted) =>
             /\ uiState' = uiState
             /\ threadId' = threadId
             /\ threadId # NoThread => storedThreadId' = storedThreadId
       /\ threadId # NoThread => threadId = storedThreadId]_vars

\* the page right after a click on cancelBtn in the present state
AfterCancel == cancelInFlight(Cur)

\* C34: while uiState is starting or resuming a cancel always takes effect:
\* whichever await the last operation launched is suspended at (thread
\* creation, stream open, chunk read, state fetch), a click on cancelBtn ends
\* it in error with the message of the abort; and a click with no operation
\* in flight changes nothing, the journal included.
C34_CancelAlwaysTakesEffect ==
    /\ (uiState \in Busy /\ LastLaunched # 0 /\ InFlight(ops[LastLaunched])) =>
          /\ AfterCancel.ops[LastLaunched].pc = "done"
          /\ AfterCancel.ops[LastLaunched].aborted = "user"
          /\ AfterCancel.uiState = "error"
          /\ AfterCancel.errorBanner = [hidden |-> FALSE, textContent |-> AbortMessage("user")]
    /\ (\A i \in OpIds : ~InFlight(ops[i])) => AfterCancel = Cur

\* C35: when every network request is answered, every run that enters
\* starting or resuming reaches waiting_approval, done or error; uiState is
\* starting or resuming only while a start or resume operation is in
\* progress; and currentController is non-null only while the stream of the
\* operation that created it is open.
C35_RunsEndAndNothingIsLeft ==
    /\ (uiState \in Busy) ~> (uiState \in Settled)
    /\ [](uiState \in Busy => \E i \in OpIds : InFlight(ops[i]))
    /\ [](currentController # NoController => StreamOpen(ops[currentController]))

====
